---- MODULE Spec2Model ----
(***************************************************************************)
(* The ledger-anchoring services of IntelliTrust:                          *)
(*   - app/services/blockchain_service_v2.py: BlockchainService with input *)
(*     validation, rate limiting and the retry_on_failure wrapper, its     *)
(*     construction, its reference (mock) backend and its ethereum/polygon *)
(*     backend (gas limit, gas price, nonces, receipts, network status);   *)
(*   - app/services/blockchain_service.py: BlockchainService with the      *)
(*     reference ledger of transactions, documents and blocks (the v1_     *)
(*     variables);                                                         *)
(*   - app/api/v1/endpoints/blockchain.py: the anchor background task and  *)
(*     the verify endpoint, each on an instance of its own.                *)
(* Strings are modelled by the properties the code reads of them: a file   *)
(* hash by its length and whether all its characters are hexadecimal, an   *)
(* owner DID by its length, a metadata value by its Python type and the    *)
(* length of its json.dumps serialisation.  Time is in whole seconds.      *)
(***************************************************************************)
EXTENDS Integers, Sequences, FiniteSets, TLC

VARIABLES
    now,                     \* time.time() / datetime.utcnow()
    mock_documents,          \* v2 self._mock_documents: file hash -> record
    mock_transactions,       \* v2 self._mock_transactions: tx hash -> record
    block_counter,           \* v2 self._block_counter
    rate_limit_counter,      \* v2 self._rate_limit_counter
    last_rate_limit_reset,   \* v2 self._last_rate_limit_reset
    blockchain_type,         \* v2 self.blockchain_type after construction
    nonce_cache,             \* v2 self._nonce_cache, its entry for the account
    chain_tx_count,          \* the chain's transaction count of the account
    chain_documents,         \* the contract's documents: file hash -> record
    call,                    \* the v2 call in flight: its wrapper's position
    last_anchor,             \* history: the last anchor_document that succeeded
    prev_anchor,             \* history: the successful anchor_document before it
    admitted,                \* history: times at which _check_rate_limit admitted
    settings,                \* app.core.config.settings as the constructor read it
    snapshot,                \* what the last get_network_status returned
    fee,                     \* the last gas limit and gas price computed
    tasks,                   \* concurrent anchor_document coroutines on the chain
    chain_pending,           \* the node's pending transactions: nonce -> tx id
    chain_receipts,          \* the receipts of mined transactions: tx id -> status
    submitted,               \* history: what send_raw_transaction was given
    conflict_lookup,         \* history: the nonce lookup after a nonce conflict
    v1_mock_transactions,    \* v1 self._mock_transactions: uuid -> record
    v1_mock_documents,       \* v1 self._mock_documents: file hash -> record
    v1_mock_blocks,          \* v1 self._mock_blocks: list of blocks
    v1_block_counter,        \* v1 self._block_counter
    v1_result,               \* what the last v1 operation returned or raised
    v1_calls,                \* history: the v1 calls that returned and that raised
    endpoint                 \* the calls of the API endpoints and their instances

ledger == <<mock_documents, mock_transactions, block_counter>>
limiter == <<rate_limit_counter, last_rate_limit_reset>>
chain == <<nonce_cache, chain_tx_count, chain_documents>>
hist == <<last_anchor, prev_anchor, admitted>>
pool == <<tasks, chain_pending, chain_receipts, submitted, conflict_lookup>>
svc == <<settings, snapshot, fee, pool>>
v2vars == <<ledger, limiter, blockchain_type, chain, call, hist, svc>>
v1vars == <<v1_mock_transactions, v1_mock_documents, v1_mock_blocks,
            v1_block_counter, v1_result, v1_calls, endpoint>>
vars == <<now, v2vars, v1vars>>

----------------------------------------------------------------------------
(* Bounds of the model *)

MaxTime == 6
MaxBlocks == 2
MaxRateTime == 70
MaxRateBlocks == 12
MaxV1Blocks == 3
MaxV1Time == 1
TickStep == 2
RateTickStep == 30
MaxBuildBlocks == 1
MaxBuildTime == 6
FeeSpread == 3
MaxChainTime == 8
MaxWaitTime == 310
MaxLiveTime == 910
MaxEndpointCalls == 4

(* Constants of the program *)

HashLen == 64
MinDidLen == 10
MaxMetadataLen == 10000
RateLimitCap == 10
RateWindow == 60
AnchorMaxRetries == 3
AnchorDelay == 2
VerifyMaxRetries == 3
VerifyDelay == 1
MockGasUsed == 100000
NonceTtl == 300
MinGas == 100000
MaxGas == 5000000
DefaultGas == 300000
WeiPerGwei == 1000000000
MinGasPriceGwei == 1
MaxGasPriceGwei == 100
DefaultGasPriceGwei == 20
ReceiptTimeout == 300
PollInterval == 2

----------------------------------------------------------------------------
(* Inputs *)

\* file_hash arguments: a SHA-256 hex digest, 64 characters that are not all
\* hexadecimal ("z" * 64) and a 63-character hex string; EmptyStr is "".
D1 == [name |-> "d1", len |-> 64, hex |-> TRUE]
Z64 == [name |-> "z64", len |-> 64, hex |-> FALSE]
H63 == [name |-> "h63", len |-> 63, hex |-> TRUE]
EmptyStr == [name |-> "", len |-> 0, hex |-> TRUE]
FileHashes == {D1, Z64, H63}
HexFileHashes == {D1, H63}

\* user_did arguments: 10 and 23 characters and 9 characters; OEmpty is "".
O1 == [name |-> "o1", len |-> 10]
O2 == [name |-> "o2", len |-> 23]
O9 == [name |-> "o9", len |-> 9]
OEmpty == [name |-> "", len |-> 0]
UserDids == {O1, O2, O9}

\* metadata arguments: None, a dict whose serialisation is exactly 10000
\* characters, one of 10001 characters, and a non-dict (a list); MEmpty is {}.
\* MUnser is a dict holding a value json.dumps cannot serialise (a datetime).
MNone == [name |-> "None", type |-> "none", json |-> TRUE, dumps_len |-> 4]
MEmpty == [name |-> "{}", type |-> "dict", json |-> TRUE, dumps_len |-> 2]
MLimit == [name |-> "limit", type |-> "dict", json |-> TRUE, dumps_len |-> 10000]
MBig == [name |-> "big", type |-> "dict", json |-> TRUE, dumps_len |-> 10001]
MList == [name |-> "list", type |-> "list", json |-> TRUE, dumps_len |-> 5]
MUnser == [name |-> "unser", type |-> "dict", json |-> FALSE, dumps_len |-> 0]
Metadatas == {MNone, MLimit, MBig, MList}

\* Python truthiness of a metadata value.
Truthy(metadata) == metadata.type # "none" /\ metadata # MEmpty

\* `metadata or {}`
OrEmpty(metadata) == IF Truthy(metadata) THEN metadata ELSE MEmpty

----------------------------------------------------------------------------
(* Results *)

NoResult == [kind |-> "none"]
NoV1Result == [op |-> "none", file_hash |-> EmptyStr, kind |-> "none"]

\* An exception: its class and its message, str(e), as the list of the parts
\* that the f-strings of the handlers put together ("prefix: {str(e)}").
Raised(class, msg) == [kind |-> "error", class |-> class, error |-> <<msg>>]

\* raise class(f"{prefix}: {str(e)}")
Wrapped(class, prefix, e) ==
    [kind |-> "error", class |-> class, error |-> <<prefix>> \o e.error]

\* The message of the exception first raised.
Root(r) == r.error[Len(r.error)]

ValidationMessages == {"Invalid file hash", "Invalid user DID",
                       "Metadata must be a dictionary", "Metadata too large",
                       "Not JSON serializable"}
IsValidationError(r) == r.kind = "error" /\ Root(r) \in ValidationMessages
IsRateLimitError(r) == r.kind = "error" /\ Root(r) = "Rate limit exceeded"

----------------------------------------------------------------------------
(* blockchain_service_v2.BlockchainService *)

\* Mutant of validate_inputs: the size of the serialised metadata is not tested.
validate_inputs_no_size(file_hash, user_did, metadata) ==
    IF file_hash.len = 0 \/ file_hash.len # HashLen
    THEN "Invalid file hash"
    ELSE IF user_did.len = 0 \/ user_did.len < MinDidLen
    THEN "Invalid user DID"
    ELSE IF Truthy(metadata) /\ metadata.type # "dict"
    THEN "Metadata must be a dictionary"
    ELSE "ok"

\* _validate_inputs: "ok" or the message of the error it raises (json.dumps
\* raises the TypeError of a value it cannot serialise).
validate_inputs(file_hash, user_did, metadata) ==
    IF file_hash.len = 0 \/ file_hash.len # HashLen
    THEN "Invalid file hash"
    ELSE IF user_did.len = 0 \/ user_did.len < MinDidLen
    THEN "Invalid user DID"
    ELSE IF Truthy(metadata) /\ metadata.type # "dict"
    THEN "Metadata must be a dictionary"
    ELSE IF Truthy(metadata) /\ ~metadata.json
    THEN "Not JSON serializable"
    ELSE IF Truthy(metadata) /\ metadata.dumps_len > MaxMetadataLen
    THEN "Metadata too large"
    ELSE "ok"

\* The exception _validate_inputs raises with message v: a BlockchainError, or
\* the TypeError of json.dumps.
validation_error(v) ==
    Raised(IF v = "Not JSON serializable" THEN "TypeError" ELSE "BlockchainError",
           v)

\* The handlers of anchor_document and verify_document: every exception of
\* the body is raised again as a BlockchainError with a prefixed message.
anchoring_failed(e) ==
    Wrapped("BlockchainError", "Blockchain anchoring failed", e)
verification_failed(e) ==
    Wrapped("BlockchainError", "Document verification failed", e)

\* The test at the head of verify_document.
verify_input_invalid(file_hash) == file_hash.len = 0 \/ file_hash.len # HashLen

\* _check_rate_limit: the counter and reset time after the window test, and
\* whether it then raises.
rate_window_elapsed == now - last_rate_limit_reset > RateWindow
counter_after_reset == IF rate_window_elapsed THEN 0 ELSE rate_limit_counter
reset_after_reset == IF rate_window_elapsed THEN now ELSE last_rate_limit_reset
\* Mutant of rate_limit_exceeded: the cap itself is still admitted.
rate_limit_exceeded_above == counter_after_reset > RateLimitCap

rate_limit_exceeded == counter_after_reset >= RateLimitCap

\* hashlib.sha256(f"{file_hash}{user_did}{time.time()}").hexdigest(): a
\* collision-free function of the hashed text.
mock_tx_hash(file_hash, user_did, t) == <<file_hash.name, user_did.name, t>>

Put(f, k, v) == [x \in DOMAIN f \cup {k} |-> IF x = k THEN v ELSE f[x]]

\* Mutant of anchor_mock_documents: an entry already present is kept.
anchor_mock_documents_keep(file_hash, user_did, metadata) ==
    IF file_hash \in DOMAIN mock_documents THEN mock_documents
    ELSE Put(mock_documents, file_hash,
             [user_did |-> user_did, metadata |-> OrEmpty(metadata),
              timestamp |-> now, revoked |-> FALSE])

\* _anchor_document_mock: the ledger after the call, and what it returns.
anchor_mock_documents(file_hash, user_did, metadata) ==
    Put(mock_documents, file_hash,
        [user_did |-> user_did, metadata |-> OrEmpty(metadata),
         timestamp |-> now, revoked |-> FALSE])

anchor_mock_transactions(file_hash, user_did) ==
    Put(mock_transactions, mock_tx_hash(file_hash, user_did, now),
        [hash |-> mock_tx_hash(file_hash, user_did, now),
         block_number |-> block_counter, gas_used |-> MockGasUsed, status |-> 1])

anchor_mock_result(file_hash, user_did) ==
    [kind |-> "anchored",
     transaction_hash |-> mock_tx_hash(file_hash, user_did, now),
     block_number |-> block_counter, blockchain_hash |-> file_hash,
     status |-> "confirmed", network |-> "mock"]

\* _verify_document_mock
verify_mock_result(file_hash) ==
    IF file_hash \notin DOMAIN mock_documents
    THEN [kind |-> "verify", verified |-> FALSE]
    ELSE [kind |-> "verify", verified |-> TRUE,
          user_did |-> mock_documents[file_hash].user_did,
          timestamp |-> mock_documents[file_hash].timestamp,
          metadata |-> mock_documents[file_hash].metadata,
          revoked |-> mock_documents[file_hash].revoked,
          network |-> "mock"]

\* _get_nonce: the cached nonce while the entry is younger than 5 minutes,
\* else the chain's transaction count, which replaces the entry.
NoNonce == [cached |-> FALSE, nonce |-> 0, timestamp |-> 0]
nonce_cache_hit == nonce_cache.cached /\ now - nonce_cache.timestamp < NonceTtl
get_nonce == IF nonce_cache_hit THEN nonce_cache.nonce ELSE chain_tx_count
nonce_cache_after_get ==
    IF nonce_cache_hit THEN nonce_cache
    ELSE [cached |-> TRUE, nonce |-> chain_tx_count, timestamp |-> now]

\* json.dumps of a metadata dict and json.loads of that text (the metadata
\* dicts here have string keys, which the round trip keeps).
json_dumps(metadata) == [text_of |-> metadata]
json_loads(metadata_str) == metadata_str.text_of

\* The contract behind anchorDocument / verifyDocument, as its interface
\* describes it: the record of a hash holds the owner, the metadata text and
\* the revoked flag.
contract_anchorDocument(file_hash, user_did, metadata_str) ==
    Put(chain_documents, file_hash,
        [user_did |-> user_did, metadata |-> metadata_str,
         timestamp |-> now, revoked |-> FALSE])

\* _anchor_document_ethereum (and, line for line, _anchor_document_polygon)
\* with the receipt found by the first poll.  `outcome` is what the network
\* does: "rpc_fails" (chain id, gas or nonce query raises before anything is
\* sent), "send_fails" (send_raw_transaction raises) or "confirmed".
network_error(outcome) ==
    Raised(IF outcome = "rpc_fails" THEN "ConnectionError" ELSE "ValueError",
           outcome)

transaction_failed(e) ==
    Wrapped("TransactionError",
            IF blockchain_type = "polygon" THEN "Polygon transaction failed"
            ELSE "Ethereum transaction failed", e)

ethereum_anchor_result(outcome) ==
    IF outcome = "confirmed"
    THEN [kind |-> "anchored", transaction_hash |-> <<"chain", get_nonce>>,
          block_number |-> chain_tx_count + 1,
          blockchain_hash |-> call.file_hash, status |-> "confirmed",
          network |-> blockchain_type]
    ELSE transaction_failed(network_error(outcome))

ethereum_anchor_nonce_cache(outcome) ==
    IF outcome = "rpc_fails" THEN nonce_cache
    ELSE IF outcome = "send_fails" THEN nonce_cache_after_get
    ELSE [nonce_cache_after_get EXCEPT !.nonce = get_nonce + 1]

\* _verify_document_ethereum: the contract call raises, or answers.
verify_ethereum_result(file_hash, outcome) ==
    IF outcome # "confirmed"
    THEN Wrapped("BlockchainError",
                 IF blockchain_type = "polygon"
                 THEN "Polygon verification failed"
                 ELSE "Ethereum verification failed", network_error(outcome))
    ELSE IF file_hash \notin DOMAIN chain_documents
    THEN [kind |-> "verify", verified |-> FALSE]
    ELSE [kind |-> "verify", verified |-> TRUE,
          user_did |-> chain_documents[file_hash].user_did,
          timestamp |-> chain_documents[file_hash].timestamp,
          metadata |-> json_loads(chain_documents[file_hash].metadata),
          revoked |-> chain_documents[file_hash].revoked,
          network |-> blockchain_type]

\* retry_on_failure: after a failed attempt number `attempt` (from 0), does the
\* wrapper sleep and try again, and for how long does it sleep.
retries_again_once(attempt, max_retries) == attempt < max_retries - 2
retries_again_more(attempt, max_retries) == attempt < max_retries
retries_again(attempt, max_retries) == attempt < max_retries - 1
backoff_delay(attempt, delay) == delay * (2 ^ attempt)

IdleCall == [op |-> "none", file_hash |-> EmptyStr, user_did |-> OEmpty,
             metadata |-> MNone, max_retries |-> 0, delay |-> 0,
             attempt |-> 0, invocations |-> 0, slept |-> 0, limited |-> FALSE,
             admissions |-> 0, pc |-> "idle", result |-> NoResult]

\* The wrapper of retry_on_failure(max_retries, delay) is entered.
NewCall(op, file_hash, user_did, metadata, max_retries, delay) ==
    [op |-> op, file_hash |-> file_hash, user_did |-> user_did,
     metadata |-> metadata, max_retries |-> max_retries, delay |-> delay,
     attempt |-> 0, invocations |-> 0, slept |-> 0, limited |-> FALSE,
     admissions |-> 0, pc |-> "run", result |-> NoResult]

\* The wrapper after one invocation of the wrapped function ended with `r`:
\* it returns a value, sleeps before the next attempt, or raises the last
\* exception.  `limited` records that an invocation was refused by the rate
\* limiter, `admissions` counts the invocations it admitted.
AfterAttempt(r) ==
    [call EXCEPT !.invocations = @ + 1,
                 !.result = r,
                 !.limited = @ \/ IsRateLimitError(r),
                 !.pc = IF r.kind = "error"
                           /\ retries_again(call.attempt, call.max_retries)
                        THEN "sleep" ELSE "done"]

Admitted(c) == [c EXCEPT !.admissions = @ + 1]

\* anchor_document reaches _check_rate_limit when _validate_inputs, the
\* statement before it, returned.
\* Mutant of check_rate_limit_runs: the rate limiter is checked first.
check_rate_limit_first(v) == TRUE

check_rate_limit_runs(v) == v = "ok"

\* _check_rate_limit: the counter after the window's reset and the check.
counter_after_check ==
    IF rate_limit_exceeded THEN counter_after_reset
    ELSE counter_after_reset + 1

\* A caller invokes anchor_document(file_hash, user_did, metadata).
CallAnchor(file_hash, user_did, metadata, max_admitted) ==
    /\ call.pc \in {"idle", "done"}
    /\ Len(admitted) < max_admitted
    /\ call' = NewCall("anchor", file_hash, user_did, metadata,
                       AnchorMaxRetries, AnchorDelay)
    /\ UNCHANGED <<now, ledger, limiter, blockchain_type, chain, hist, svc,
                   v1vars>>

\* A caller invokes verify_document(file_hash).
CallVerify(file_hash) ==
    /\ call.pc \in {"idle", "done"}
    /\ call' = NewCall("verify", file_hash, OEmpty, MNone,
                       VerifyMaxRetries, VerifyDelay)
    /\ UNCHANGED <<now, ledger, limiter, blockchain_type, chain, hist, svc,
                   v1vars>>

\* The history of successful anchors.
RecordAnchor(r) ==
    IF r.kind = "anchored"
    THEN /\ last_anchor' = [kind |-> "anchor", file_hash |-> call.file_hash,
                            user_did |-> call.user_did,
                            metadata |-> call.metadata,
                            transaction_hash |-> r.transaction_hash]
         /\ prev_anchor' = last_anchor
    ELSE UNCHANGED <<last_anchor, prev_anchor>>

\* One invocation of the body of anchor_document by the wrapper: validation,
\* the rate limiter, then the backend the service was constructed with.
AnchorAttempt(outcome) ==
    /\ call.pc = "run" /\ call.op = "anchor"
    /\ blockchain_type = "mock" => outcome = "confirmed"
    /\ LET v == validate_inputs(call.file_hash, call.user_did, call.metadata)
       IN IF v # "ok"
          THEN /\ call' = AfterAttempt(anchoring_failed(validation_error(v)))
               /\ rate_limit_counter' =
                      IF check_rate_limit_runs(v) THEN counter_after_check
                      ELSE rate_limit_counter
               /\ last_rate_limit_reset' =
                      IF check_rate_limit_runs(v) THEN reset_after_reset
                      ELSE last_rate_limit_reset
               /\ UNCHANGED <<ledger, chain, hist>>
          ELSE IF rate_limit_exceeded
          THEN /\ call' = AfterAttempt(anchoring_failed(
                              Raised("BlockchainError", "Rate limit exceeded")))
               /\ rate_limit_counter' = counter_after_reset
               /\ last_rate_limit_reset' = reset_after_reset
               /\ UNCHANGED <<ledger, chain, hist>>
          ELSE /\ rate_limit_counter' = counter_after_reset + 1
               /\ last_rate_limit_reset' = reset_after_reset
               /\ admitted' = Append(admitted, now)
               /\ IF blockchain_type = "mock"
                  THEN /\ mock_documents' = anchor_mock_documents(
                              call.file_hash, call.user_did, call.metadata)
                       /\ mock_transactions' = anchor_mock_transactions(
                              call.file_hash, call.user_did)
                       /\ block_counter' = block_counter + 1
                       /\ call' = Admitted(AfterAttempt(
                              anchor_mock_result(call.file_hash, call.user_did)))
                       /\ RecordAnchor(
                              anchor_mock_result(call.file_hash, call.user_did))
                       /\ UNCHANGED chain
                  ELSE /\ nonce_cache' = ethereum_anchor_nonce_cache(outcome)
                       /\ chain_tx_count' = IF outcome = "confirmed"
                                            THEN chain_tx_count + 1
                                            ELSE chain_tx_count
                       /\ chain_documents' =
                              IF outcome = "confirmed"
                              THEN contract_anchorDocument(
                                       call.file_hash, call.user_did,
                                       json_dumps(OrEmpty(call.metadata)))
                              ELSE chain_documents
                       /\ call' = Admitted(AfterAttempt(
                              IF outcome = "confirmed"
                              THEN ethereum_anchor_result(outcome)
                              ELSE anchoring_failed(
                                       ethereum_anchor_result(outcome))))
                       /\ RecordAnchor(ethereum_anchor_result(outcome))
                       /\ UNCHANGED ledger
    /\ UNCHANGED <<now, blockchain_type, svc, v1vars>>

\* One invocation of the body of verify_document by the wrapper.
VerifyAttempt(outcome) ==
    /\ call.pc = "run" /\ call.op = "verify"
    /\ (blockchain_type = "mock" \/ verify_input_invalid(call.file_hash))
           => outcome = "confirmed"
    /\ call' = AfterAttempt(
           IF verify_input_invalid(call.file_hash)
           THEN verification_failed(
                    Raised("BlockchainError", "Invalid file hash"))
           ELSE IF blockchain_type = "mock"
           THEN verify_mock_result(call.file_hash)
           ELSE IF outcome = "confirmed"
           THEN verify_ethereum_result(call.file_hash, outcome)
           ELSE verification_failed(
                    verify_ethereum_result(call.file_hash, outcome)))
    /\ UNCHANGED <<now, ledger, limiter, blockchain_type, chain, hist, svc,
                   v1vars>>

\* await asyncio.sleep(delay * 2 ** attempt) in the wrapper, then the next
\* iteration of its loop.
Backoff(limit) ==
    /\ call.pc = "sleep"
    /\ now + backoff_delay(call.attempt, call.delay) <= limit
    /\ now' = now + backoff_delay(call.attempt, call.delay)
    /\ call' = [call EXCEPT !.attempt = @ + 1, !.pc = "run",
                            !.slept = @ + backoff_delay(call.attempt, call.delay)]
    /\ UNCHANGED <<ledger, limiter, blockchain_type, chain, hist, svc, v1vars>>

\* The clock advances between the calls of the service (the time a call
\* takes is the time its wrapper sleeps, which is Backoff's).
Tick(step, limit) ==
    /\ call.pc \in {"idle", "done"}
    /\ now + step <= limit
    /\ now' = now + step
    /\ UNCHANGED <<v2vars, v1vars>>

----------------------------------------------------------------------------
(* Gas limit and gas price *)

Max(a, b) == IF a >= b THEN a ELSE b
Min(a, b) == IF a <= b THEN a ELSE b

\* What contract_func(*args).estimate_gas() does: it raises, or returns a
\* number of gas units.
GasFails == [raises |-> TRUE, value |-> 0]
GasOf(n) == [raises |-> FALSE, value |-> n]
GasEstimates ==
    {GasFails}
    \cup {GasOf(n) : n \in {0, 1, MinGas, DefaultGas, MaxGas, 2 * MaxGas}}
    \cup {GasOf(n) : n \in ((MinGas * 10) \div 12 - FeeSpread)
                                ..((MinGas * 10) \div 12 + FeeSpread)}
    \cup {GasOf(n) : n \in ((MaxGas * 10) \div 12 - FeeSpread)
                                ..((MaxGas * 10) \div 12 + FeeSpread)}

\* int(estimated_gas * 1.2): the double product of a gas estimate and 1.2,
\* truncated, is the integer part of 12 * estimated_gas / 10.
gas_with_buffer(estimated_gas) == (estimated_gas * 12) \div 10

\* Mutant of estimate_gas_optimized: the minimum is not applied.
estimate_gas_no_min(estimate) ==
    IF estimate.raises THEN DefaultGas
    ELSE Min(gas_with_buffer(estimate.value), MaxGas)

\* _estimate_gas_optimized
estimate_gas_optimized(estimate) ==
    IF estimate.raises THEN DefaultGas
    ELSE Max(MinGas, Min(gas_with_buffer(estimate.value), MaxGas))

\* An amount of wei, which Python holds in an int of any size: the whole
\* gwei and the wei below one gwei.
Wei(g, w) == [gwei |-> g, wei |-> w]
to_wei(n) == Wei(n, 0)
WeiLe(a, b) == a.gwei < b.gwei \/ (a.gwei = b.gwei /\ a.wei <= b.wei)
WeiAdd(a, b) ==
    Wei(a.gwei + b.gwei + (a.wei + b.wei) \div WeiPerGwei,
        (a.wei + b.wei) % WeiPerGwei)
WeiDivTen(a) ==
    Wei(a.gwei \div 10, (a.gwei % 10) * (WeiPerGwei \div 10) + a.wei \div 10)
WeiMax(a, b) == IF WeiLe(b, a) THEN a ELSE b
WeiMin(a, b) == IF WeiLe(a, b) THEN a ELSE b

\* The wei of 10/11 gwei, whose buffered value is about one gwei.
TenElevenths ==
    (WeiPerGwei \div 11) * 10 + ((WeiPerGwei % 11) * 10) \div 11

\* What w3.eth.gas_price does: it raises, or returns the price in wei.
PriceFails == [raises |-> TRUE, value |-> Wei(0, 0)]
PriceOf(a) == [raises |-> FALSE, value |-> a]
GasPrices ==
    {PriceFails}
    \cup {PriceOf(Wei(g, 0)) :
             g \in {0, MinGasPriceGwei, DefaultGasPriceGwei, MaxGasPriceGwei,
                    2 * MaxGasPriceGwei}}
    \cup {PriceOf(Wei((MinGasPriceGwei * 10) \div 11, w)) :
             w \in (TenElevenths - FeeSpread)..(TenElevenths + FeeSpread)}
    \cup {PriceOf(Wei((MaxGasPriceGwei * 10) \div 11, w)) :
             w \in (TenElevenths - FeeSpread)..(TenElevenths + FeeSpread)}

\* int(current_gas_price * 1.1): the double product of a price and 1.1,
\* truncated, is the price plus the integer part of its tenth.
optimal_gas_price(current_gas_price) ==
    WeiAdd(current_gas_price, WeiDivTen(current_gas_price))

\* Mutant of get_optimal_gas_price: the maximum is not applied.
get_optimal_gas_price_no_max(price) ==
    IF price.raises THEN to_wei(DefaultGasPriceGwei)
    ELSE WeiMax(to_wei(MinGasPriceGwei), optimal_gas_price(price.value))

\* _get_optimal_gas_price
get_optimal_gas_price(price) ==
    IF price.raises THEN to_wei(DefaultGasPriceGwei)
    ELSE WeiMax(to_wei(MinGasPriceGwei),
                WeiMin(optimal_gas_price(price.value),
                       to_wei(MaxGasPriceGwei)))

\* The gas limit and the gas price of the transaction being built, with the
\* answers of the node and the buffered values they were computed from.
NoFee == [estimate |-> GasFails, gas_with_buffer |-> 0, gas |-> 0,
          price |-> PriceFails, optimal_gas_price |-> Wei(0, 0),
          gasPrice |-> Wei(0, 0), has_gas |-> FALSE, has_price |-> FALSE]

\* gas_limit = self._estimate_gas_optimized(w3, contract_func)
EstimateGas(estimate) ==
    /\ blockchain_type # "mock"
    /\ fee' = [fee EXCEPT !.estimate = estimate,
                          !.gas_with_buffer =
                              IF estimate.raises THEN 0
                              ELSE gas_with_buffer(estimate.value),
                          !.gas = estimate_gas_optimized(estimate),
                          !.has_gas = TRUE]
    /\ UNCHANGED <<now, ledger, limiter, blockchain_type, chain, call, hist,
                   settings, snapshot, pool, v1vars>>

\* gas_price = self._get_optimal_gas_price(w3)
GetGasPrice(price) ==
    /\ blockchain_type # "mock"
    /\ fee' = [fee EXCEPT !.price = price,
                          !.optimal_gas_price =
                              IF price.raises THEN Wei(0, 0)
                              ELSE optimal_gas_price(price.value),
                          !.gasPrice = get_optimal_gas_price(price),
                          !.has_price = TRUE]
    /\ UNCHANGED <<now, ledger, limiter, blockchain_type, chain, call, hist,
                   settings, snapshot, pool, v1vars>>

----------------------------------------------------------------------------
(* Concurrent anchor_document calls on a chain backend *)

\* The coroutines of anchor_document that one service instance runs on one
\* event loop.  A coroutine runs alone from one await that suspends it to the
\* next: the sleep between two polls of the receipt and the sleep of the
\* retry wrapper.  Every call to the node (chain id, transaction count,
\* send_raw_transaction, get_transaction_receipt) is synchronous.
Tasks == {1, 2}
IdleTask == [pc |-> "idle", attempt |-> 0, invocations |-> 0, nonce |-> 0,
             tx |-> <<0, 0>>, start_time |-> 0, wake |-> 0,
             saw_reverted |-> FALSE, result |-> NoResult]

\* The arguments of the call of task p.
task_file_hash(p) == D1
task_user_did(p) == IF p = 1 THEN O1 ELSE O2
task_metadata(p) == MNone

\* The node's answer to send_raw_transaction of a transaction with this
\* nonce: it refuses a nonce that a mined transaction or a pending one of
\* the account already has (nonce too low, already known, replacement
\* underpriced at an equal gas price).
nonce_conflict(nonce) == nonce < chain_tx_count \/ nonce \in DOMAIN chain_pending

\* The exceptions of _wait_for_transaction_receipt.
reverted_error == Raised("TransactionError", "Transaction failed on blockchain")
timeout_error == Raised("TransactionError", "Transaction timeout")

\* The invocation of task p ended with exception e of the body of
\* anchor_document: the handler of anchor_document wraps it and the retry
\* wrapper sleeps before the next attempt or raises.
task_after_failure(p, e) ==
    [tasks[p] EXCEPT
        !.invocations = @ + 1,
        !.result = anchoring_failed(e),
        !.pc = IF retries_again(tasks[p].attempt, AnchorMaxRetries)
               THEN "sleep" ELSE "done",
        !.wake = now + backoff_delay(tasks[p].attempt, AnchorDelay)]

\* History of the nonce lookups: after a submission failed by a nonce
\* conflict ("pending"), was the next lookup answered by the node
\* ("refetched") or by the cache ("stale").
lookup_after(cl) ==
    IF cl = "pending"
    THEN (IF nonce_cache_hit THEN "stale" ELSE "refetched")
    ELSE cl
conflict_after(cl) == IF cl = "stale" THEN "stale" ELSE "pending"

\* A caller awaits anchor_document on the chain backend: task p is created.
TaskCall(p) ==
    /\ blockchain_type # "mock"
    /\ tasks[p].pc = "idle"
    /\ tasks' = [tasks EXCEPT ![p] = [IdleTask EXCEPT !.pc = "run"]]
    /\ UNCHANGED <<now, ledger, limiter, blockchain_type, chain, call, hist,
                   settings, snapshot, fee, chain_pending, chain_receipts,
                   submitted, conflict_lookup, v1vars>>

\* Task p runs one invocation of anchor_document up to its first sleep:
\* validation, the rate limiter, then _anchor_document_ethereum: the nonce,
\* the transaction built, signed and sent, and the first poll for its
\* receipt, which the node cannot have yet.  `outcome` is "rpc_fails" when a
\* query before the sending raises, else "sent".
TaskRun(p, outcome) ==
    /\ tasks[p].pc = "run"
    /\ validate_inputs(task_file_hash(p), task_user_did(p), task_metadata(p))
           = "ok"
    /\ IF rate_limit_exceeded
       THEN /\ rate_limit_counter' = counter_after_reset
            /\ last_rate_limit_reset' = reset_after_reset
            /\ tasks' = [tasks EXCEPT ![p] = task_after_failure(p,
                             Raised("BlockchainError", "Rate limit exceeded"))]
            /\ UNCHANGED <<admitted, nonce_cache, chain_pending, submitted,
                           conflict_lookup>>
       ELSE /\ rate_limit_counter' = counter_after_reset + 1
            /\ last_rate_limit_reset' = reset_after_reset
            /\ admitted' = Append(admitted, now)
            /\ IF outcome = "rpc_fails"
               THEN /\ tasks' = [tasks EXCEPT ![p] = task_after_failure(p,
                                     transaction_failed(network_error(outcome)))]
                    /\ UNCHANGED <<nonce_cache, chain_pending, submitted,
                                   conflict_lookup>>
               ELSE /\ nonce_cache' = nonce_cache_after_get
                    /\ submitted' = Append(submitted,
                           [task |-> p, attempt |-> tasks[p].attempt,
                            nonce |-> get_nonce,
                            accepted |-> ~nonce_conflict(get_nonce)])
                    /\ IF nonce_conflict(get_nonce)
                       THEN /\ tasks' = [tasks EXCEPT ![p] =
                                   task_after_failure(p, transaction_failed(
                                       Raised("ValueError", "nonce conflict")))]
                            /\ conflict_lookup' =
                                   conflict_after(lookup_after(conflict_lookup))
                            /\ UNCHANGED chain_pending
                       ELSE /\ chain_pending' =
                                   Put(chain_pending, get_nonce,
                                       <<p, tasks[p].attempt>>)
                            /\ conflict_lookup' = lookup_after(conflict_lookup)
                            /\ tasks' = [tasks EXCEPT ![p] =
                                   [@ EXCEPT !.pc = "wait",
                                             !.nonce = get_nonce,
                                             !.tx = <<p, tasks[p].attempt>>,
                                             !.start_time = now,
                                             !.saw_reverted = FALSE,
                                             !.wake = now + PollInterval]]
    /\ UNCHANGED <<now, ledger, blockchain_type, chain_tx_count,
                   chain_documents, call, last_anchor, prev_anchor, settings,
                   snapshot, fee, chain_receipts, v1vars>>

\* The test of the loop of _wait_for_transaction_receipt:
\* time.time() - start_time < timeout is false.
\* Mutant of wait_timed_out: the loop has no timeout.
wait_timed_out_never(p) == FALSE

wait_timed_out(p) == now - tasks[p].start_time >= ReceiptTimeout

\* Task p wakes in the loop of _wait_for_transaction_receipt: the timeout is
\* tested, then the receipt is asked for.  A receipt of status 1 is returned
\* and anchor_document writes nonce + 1 to the cache and returns; the
\* TransactionError raised for a receipt of status 0 is caught by the
\* handler of the poll, like the error of a receipt not found, and the loop
\* sleeps again.
TaskPoll(p) ==
    /\ tasks[p].pc = "wait" /\ tasks[p].wake <= now
    /\ IF wait_timed_out(p)
       THEN /\ tasks' = [tasks EXCEPT ![p] = task_after_failure(p,
                             transaction_failed(timeout_error))]
            /\ UNCHANGED nonce_cache
       ELSE IF tasks[p].tx \in DOMAIN chain_receipts
               /\ chain_receipts[tasks[p].tx] = 1
       THEN /\ nonce_cache' = [nonce_cache EXCEPT !.nonce = tasks[p].nonce + 1]
            /\ tasks' = [tasks EXCEPT ![p] =
                   [@ EXCEPT !.pc = "done",
                             !.invocations = @ + 1,
                             !.result =
                                 [kind |-> "anchored",
                                  transaction_hash |-> <<"chain", tasks[p].tx>>,
                                  block_number |-> tasks[p].nonce + 1,
                                  blockchain_hash |-> task_file_hash(p),
                                  status |-> "confirmed",
                                  network |-> blockchain_type]]]
       ELSE /\ tasks' = [tasks EXCEPT ![p] =
                   [@ EXCEPT !.wake = now + PollInterval,
                             !.saw_reverted =
                                 @ \/ tasks[p].tx \in DOMAIN chain_receipts]]
            /\ UNCHANGED nonce_cache
    /\ UNCHANGED <<now, ledger, limiter, blockchain_type, chain_tx_count,
                   chain_documents, call, hist, settings, snapshot, fee,
                   chain_pending, chain_receipts, submitted, conflict_lookup,
                   v1vars>>

\* The sleep of the retry wrapper of task p is over: the next attempt.
TaskRetry(p) ==
    /\ tasks[p].pc = "sleep" /\ tasks[p].wake <= now
    /\ tasks' = [tasks EXCEPT ![p] = [@ EXCEPT !.pc = "run",
                                               !.attempt = @ + 1]]
    /\ UNCHANGED <<now, ledger, limiter, blockchain_type, chain, call, hist,
                   settings, snapshot, fee, chain_pending, chain_receipts,
                   submitted, conflict_lookup, v1vars>>

\* The network mines the pending transaction that is next in the account's
\* sequence; the contract call succeeds (status 1) or reverts (status 0).
Mine(status) ==
    /\ chain_tx_count \in DOMAIN chain_pending
    /\ LET tx == chain_pending[chain_tx_count]
       IN /\ chain_receipts' = Put(chain_receipts, tx, status)
          /\ chain_documents' =
                 IF status = 1
                 THEN contract_anchorDocument(
                          task_file_hash(tx[1]), task_user_did(tx[1]),
                          json_dumps(OrEmpty(task_metadata(tx[1]))))
                 ELSE chain_documents
    /\ chain_pending' = [n \in DOMAIN chain_pending \ {chain_tx_count}
                            |-> chain_pending[n]]
    /\ chain_tx_count' = chain_tx_count + 1
    /\ UNCHANGED <<now, ledger, limiter, blockchain_type, nonce_cache, call,
                   hist, settings, snapshot, fee, tasks, submitted,
                   conflict_lookup, v1vars>>

\* Every coroutine sleeps: the clock reaches the earliest wake-up time.
Sleeping == {p \in Tasks : tasks[p].pc \in {"wait", "sleep"}}
Advance(limit) ==
    /\ Sleeping # {}
    /\ \A p \in Tasks : tasks[p].pc # "run"
    /\ \A p \in Sleeping : tasks[p].wake > now
    /\ \E p \in Sleeping :
           /\ \A q \in Sleeping : tasks[p].wake <= tasks[q].wake
           /\ tasks[p].wake <= limit
           /\ now' = tasks[p].wake
    /\ UNCHANGED <<v2vars, v1vars>>

----------------------------------------------------------------------------
(* Construction of blockchain_service_v2.BlockchainService.  A setting is   *)
(* modelled by what the constructor tests of it.                            *)

\* BLOCKCHAIN_TYPE: a member of BlockchainType or another string ("fabric").
TypeSettings == {"ethereum", "polygon", "mock", "fabric"}
\* ETHEREUM_RPC_URL / POLYGON_RPC_URL: None, the template with
\* YOUR_PROJECT_ID, a URL that is not http(s)://, one nobody answers, a node.
UrlSettings == {"missing", "placeholder", "malformed", "unreachable", "ok"}
\* PRIVATE_KEY: None, not 66 characters from 0x, not hexadecimal, 0x00..0,
\* 0xff..f, 0xFF..F (above the order of the curve), a key.
KeySettings == {"missing", "short", "nonhex", "zeros", "effs", "EFFS", "ok"}
\* CONTRACT_ADDRESS: None, 0x00..0, not an address, the contract.
AddressSettings == {"missing", "zero", "malformed", "ok"}

AllSettings ==
    [BLOCKCHAIN_TYPE : TypeSettings, RPC_URL : UrlSettings,
     PRIVATE_KEY : KeySettings, CONTRACT_ADDRESS : AddressSettings]
ChainSettings == [BLOCKCHAIN_TYPE |-> "ethereum", RPC_URL |-> "ok",
                  PRIVATE_KEY |-> "ok", CONTRACT_ADDRESS |-> "ok"]
MockSettings == [BLOCKCHAIN_TYPE |-> "mock", RPC_URL |-> "missing",
                 PRIVATE_KEY |-> "missing", CONTRACT_ADDRESS |-> "missing"]

\* _get_blockchain_type: a string that names no BlockchainType gives ETHEREUM.
get_blockchain_type(s) ==
    IF s.BLOCKCHAIN_TYPE \in {"ethereum", "polygon", "mock"}
    THEN s.BLOCKCHAIN_TYPE ELSE "ethereum"

\* _validate_private_key
validate_private_key(private_key) ==
    private_key \notin {"missing", "short", "nonhex", "zeros", "effs"}

\* _init_ethereum / _init_polygon: "ok" or the message of the first step that
\* raises.  _init_polygon has no test of the URL's scheme (is_connected then
\* answers False) and none of the address's format (eth.contract then raises);
\* Account.from_key raises on a key that is not below the order of the curve.
init_chain(s, network) ==
    IF s.RPC_URL \in {"missing", "placeholder"}
    THEN "RPC URL not properly configured"
    ELSE IF network = "ethereum" /\ s.RPC_URL = "malformed"
    THEN "Invalid RPC URL format"
    ELSE IF s.RPC_URL \in {"malformed", "unreachable"}
    THEN "Failed to connect"
    ELSE IF ~validate_private_key(s.PRIVATE_KEY)
    THEN "Invalid or missing private key"
    ELSE IF s.PRIVATE_KEY = "EFFS"
    THEN "Account.from_key raises"
    ELSE IF s.CONTRACT_ADDRESS \in {"missing", "zero"}
    THEN "Invalid contract address"
    ELSE IF s.CONTRACT_ADDRESS = "malformed"
    THEN "Invalid contract address format"
    ELSE "ok"

\* Mutant of initialize_connections: a failed construction keeps the type.
initialize_connections_keep(s) == get_blockchain_type(s)

\* __init__: self.blockchain_type after _initialize_connections.
initialize_connections(s) ==
    IF get_blockchain_type(s) \in {"ethereum", "polygon"}
       /\ init_chain(s, get_blockchain_type(s)) # "ok"
    THEN "mock"
    ELSE get_blockchain_type(s)

----------------------------------------------------------------------------
(* get_network_status *)

NoSnapshot == [kind |-> "none"]
StatusOutcomes == {"rpc_fails", "confirmed"}

\* Mutant of get_chain_status: the failure of a query is not caught.
get_chain_status_raises(outcome) ==
    IF outcome = "confirmed"
    THEN [kind |-> "status", status |-> "connected",
          network |-> blockchain_type, latest_block |-> chain_tx_count,
          query |-> outcome]
    ELSE network_error(outcome)

\* _get_ethereum_status / _get_polygon_status: the queries of the node answer,
\* or one raises and the handler returns the snapshot of the error.
get_chain_status(outcome) ==
    IF outcome = "confirmed"
    THEN [kind |-> "status", status |-> "connected",
          network |-> blockchain_type, latest_block |-> chain_tx_count,
          query |-> outcome]
    ELSE [kind |-> "status", status |-> "error", network |-> blockchain_type,
          error |-> network_error(outcome).error, query |-> outcome]

\* _get_mock_status
get_mock_status ==
    [kind |-> "status", status |-> "connected", network |-> "mock",
     latest_block |-> block_counter,
     total_documents |-> Cardinality(DOMAIN mock_documents),
     total_transactions |-> Cardinality(DOMAIN mock_transactions),
     query |-> "confirmed"]

\* get_network_status of blockchain_service_v2: what the method of the backend
\* returns; an exception of it is raised again as a BlockchainError.
get_network_status(outcome) ==
    LET r == IF blockchain_type \in {"ethereum", "polygon"}
             THEN get_chain_status(outcome)
             ELSE get_mock_status
    IN IF r.kind = "error"
       THEN Wrapped("BlockchainError", "Network status check failed", r)
       ELSE r

GetNetworkStatus(outcome) ==
    /\ blockchain_type = "mock" => outcome = "confirmed"
    /\ snapshot' = get_network_status(outcome)
    /\ UNCHANGED <<now, ledger, limiter, blockchain_type, chain, call, hist,
                   settings, fee, pool, v1vars>>

----------------------------------------------------------------------------
(* blockchain_service.BlockchainService: the reference ledger.  Every       *)
(* backend branch of its operations ends in the _mock method.               *)

V1FileHashes == {D1, Z64}
V1UserDids == {O1, O2}
V1Metadatas == {MNone, MUnser}
V1Reasons == {"r1"}

\* History of the calls of anchor_document and revoke_document: how many
\* returned, how many raised, and the file hashes whose anchor returned.
NoV1Calls == [anchors |-> 0, revokes |-> 0, failed |-> 0, digests |-> {}]

\* str(uuid.uuid4()): an identifier no earlier call has drawn.
new_uuid == <<"uuid", Cardinality(DOMAIN v1_mock_transactions) + 1>>

\* _calculate_block_hash: sha256 of json.dumps(transaction_data), a
\* collision-free function of the data; json.dumps raises on a value it
\* cannot serialise.
block_hash_raises(transaction_data) ==
    transaction_data.operation = "anchor_document"
    /\ ~transaction_data.metadata.json
calculate_block_hash(transaction_data) == [sha256_of |-> transaction_data]

\* _get_previous_block_hash.  The genesis value, "0" * 64, is the digest of
\* no transaction data.
GenesisHash == [zeros |-> 64]

\* Mutant of get_previous_block_hash: every block points to the genesis
\* value.
get_previous_block_hash_genesis == GenesisHash

get_previous_block_hash ==
    IF v1_mock_blocks = <<>> THEN GenesisHash
    ELSE v1_mock_blocks[Len(v1_mock_blocks)].hash

\* _anchor_document_mock: the transaction, the document entry and the block.
v1_anchor_transaction(file_hash, user_did, metadata) ==
    [transaction_id |-> new_uuid, file_hash |-> file_hash,
     user_did |-> user_did, timestamp |-> now,
     metadata |-> OrEmpty(metadata), operation |-> "anchor_document",
     block_number |-> v1_block_counter + 1]

v1_anchor_document_entry ==
    [transaction_id |-> new_uuid, anchored_at |-> now, status |-> "confirmed",
     revoked_at |-> -1, revocation_reason |-> ""]

v1_block(transaction_data) ==
    [block_number |-> v1_block_counter + 1, timestamp |-> now,
     transactions |-> <<transaction_data.transaction_id>>,
     previous_hash |-> get_previous_block_hash,
     hash |-> calculate_block_hash(transaction_data)]

\* anchor_document(file_hash, user_did, metadata) of blockchain_service.  The
\* transaction and the document entry are stored before the block is built,
\* so they stay when the block hash raises.
V1Anchor(file_hash, user_did, metadata) ==
    /\ Cardinality(DOMAIN v1_mock_transactions) < MaxV1Blocks
    /\ LET tx == v1_anchor_transaction(file_hash, user_did, metadata)
       IN /\ v1_mock_transactions' = Put(v1_mock_transactions, new_uuid, tx)
          /\ v1_mock_documents' =
                 Put(v1_mock_documents, file_hash, v1_anchor_document_entry)
          /\ IF block_hash_raises(tx)
             THEN /\ UNCHANGED <<v1_mock_blocks, v1_block_counter>>
                  /\ v1_calls' = [v1_calls EXCEPT !.failed = @ + 1]
                  /\ v1_result' = [op |-> "anchor", file_hash |-> file_hash,
                                   kind |-> "error",
                                   error |-> "Blockchain anchoring failed"]
             ELSE /\ v1_mock_blocks' = Append(v1_mock_blocks, v1_block(tx))
                  /\ v1_block_counter' = v1_block_counter + 1
                  /\ v1_calls' = [v1_calls EXCEPT
                                     !.anchors = @ + 1,
                                     !.digests = @ \cup {file_hash}]
                  /\ v1_result' = [op |-> "anchor", file_hash |-> file_hash,
                                   kind |-> "anchored",
                                   transaction_hash |-> new_uuid,
                                   block_number |-> v1_block_counter + 1,
                                   blockchain_hash |-> file_hash,
                                   status |-> "confirmed", timestamp |-> now]
    /\ UNCHANGED <<now, v2vars, endpoint>>

\* _revoke_document_mock: the revocation transaction and the document entry.
v1_revoke_transaction(file_hash, user_did, reason) ==
    [transaction_id |-> new_uuid, file_hash |-> file_hash,
     user_did |-> user_did, reason |-> reason, timestamp |-> now,
     operation |-> "revoke_document", block_number |-> v1_block_counter + 1]

v1_revoke_documents(file_hash, reason) ==
    IF file_hash \in DOMAIN v1_mock_documents
    THEN [v1_mock_documents EXCEPT ![file_hash].status = "revoked",
                                   ![file_hash].revoked_at = now,
                                   ![file_hash].revocation_reason = reason]
    ELSE v1_mock_documents

\* revoke_document(file_hash, user_did, reason) of blockchain_service.
V1Revoke(file_hash, user_did, reason) ==
    /\ Cardinality(DOMAIN v1_mock_transactions) < MaxV1Blocks
    /\ LET tx == v1_revoke_transaction(file_hash, user_did, reason)
       IN /\ v1_mock_transactions' = Put(v1_mock_transactions, new_uuid, tx)
          /\ v1_mock_documents' = v1_revoke_documents(file_hash, reason)
          /\ v1_mock_blocks' = Append(v1_mock_blocks, v1_block(tx))
          /\ v1_block_counter' = v1_block_counter + 1
          /\ v1_calls' = [v1_calls EXCEPT !.revokes = @ + 1]
          /\ v1_result' = [op |-> "revoke", file_hash |-> file_hash,
                           kind |-> "revoked", transaction_hash |-> new_uuid,
                           block_number |-> v1_block_counter + 1,
                           status |-> "revoked", timestamp |-> now]
    /\ UNCHANGED <<now, v2vars, endpoint>>

\* _verify_document_mock of blockchain_service: the fields of the transaction
\* the document entry points to; the result has no revoked key.
v1_verify_result(file_hash) ==
    IF file_hash \in DOMAIN v1_mock_documents
       /\ v1_mock_documents[file_hash].transaction_id
              \in DOMAIN v1_mock_transactions
    THEN LET transaction_id == v1_mock_documents[file_hash].transaction_id
             transaction == v1_mock_transactions[transaction_id]
         IN [op |-> "verify", file_hash |-> file_hash, kind |-> "verify",
             verified |-> TRUE, block_number |-> transaction.block_number,
             transaction_hash |-> transaction_id,
             timestamp |-> transaction.timestamp,
             user_did |-> transaction.user_did,
             metadata |-> transaction.metadata]
    ELSE [op |-> "verify", file_hash |-> file_hash, kind |-> "verify",
          verified |-> FALSE, error |-> "Document not found on blockchain"]

\* _verify_document_mock on the ledger of a BlockchainService that __init__
\* has just constructed: _mock_documents is empty.
v1_verify_result_new(file_hash) ==
    [op |-> "verify", file_hash |-> file_hash, kind |-> "verify",
     verified |-> FALSE, error |-> "Document not found on blockchain"]

\* verify_document(file_hash) of blockchain_service.
V1Verify(file_hash) ==
    /\ v1_result' = v1_verify_result(file_hash)
    /\ UNCHANGED <<now, v2vars, v1_mock_transactions, v1_mock_documents,
                   v1_mock_blocks, v1_block_counter, v1_calls, endpoint>>

\* _get_document_history_mock: the entries of the transactions of a file
\* hash, in the order of the dict (the order of insertion, which is the order
\* of the uuids here), then list.sort by timestamp, which is stable.
history_entry(transaction_id) ==
    LET transaction == v1_mock_transactions[transaction_id]
    IN [transaction_id |-> transaction_id,
        operation |-> transaction.operation,
        timestamp |-> transaction.timestamp,
        block_number |-> transaction.block_number,
        user_did |-> transaction.user_did,
        metadata |-> IF "metadata" \in DOMAIN transaction
                     THEN transaction.metadata ELSE MEmpty]

RECURSIVE history_entries(_, _)
history_entries(file_hash, n) ==
    IF n = 0 THEN <<>>
    ELSE IF v1_mock_transactions[<<"uuid", n>>].file_hash = file_hash
    THEN Append(history_entries(file_hash, n - 1), history_entry(<<"uuid", n>>))
    ELSE history_entries(file_hash, n - 1)

\* The place of x in a list sorted by timestamp: after the entries that are
\* not later than x.
RECURSIVE insert_by_timestamp(_, _)
insert_by_timestamp(x, sorted) ==
    IF sorted = <<>> THEN <<x>>
    ELSE IF sorted[Len(sorted)].timestamp <= x.timestamp
    THEN Append(sorted, x)
    ELSE Append(insert_by_timestamp(x, SubSeq(sorted, 1, Len(sorted) - 1)),
                sorted[Len(sorted)])

RECURSIVE sort_by_timestamp(_)
sort_by_timestamp(history) ==
    IF history = <<>> THEN <<>>
    ELSE insert_by_timestamp(
             history[Len(history)],
             sort_by_timestamp(SubSeq(history, 1, Len(history) - 1)))

\* Mutant of v1_get_document_history: only the anchors are listed.
v1_get_document_history_anchors(file_hash) ==
    SelectSeq(
        sort_by_timestamp(
            history_entries(file_hash,
                            Cardinality(DOMAIN v1_mock_transactions))),
        LAMBDA e : e.operation = "anchor_document")

v1_get_document_history(file_hash) ==
    sort_by_timestamp(
        history_entries(file_hash, Cardinality(DOMAIN v1_mock_transactions)))

\* get_document_history(file_hash) of blockchain_service.
V1History(file_hash) ==
    /\ v1_result' = [op |-> "history", file_hash |-> file_hash,
                     kind |-> "history",
                     events |-> v1_get_document_history(file_hash)]
    /\ UNCHANGED <<now, v2vars, v1_mock_transactions, v1_mock_documents,
                   v1_mock_blocks, v1_block_counter, v1_calls, endpoint>>

\* get_network_status of blockchain_service (whose blockchain_type is MOCK
\* whatever the settings hold): the snapshot of _get_network_status_mock.
v1_get_network_status ==
    [op |-> "status", file_hash |-> EmptyStr, kind |-> "status",
     status |-> "online", network |-> "mock",
     latest_block |-> v1_block_counter,
     transactions_count |-> Cardinality(DOMAIN v1_mock_transactions)]

V1GetNetworkStatus ==
    /\ v1_result' = v1_get_network_status
    /\ UNCHANGED <<now, v2vars, v1_mock_transactions, v1_mock_documents,
                   v1_mock_blocks, v1_block_counter, v1_calls, endpoint>>

\* get_blockchain_info of blockchain_service: the network status and the
\* sizes of the three collections of the reference ledger.
\* Mutant of v1_get_blockchain_info: the blocks are counted by the counter
\* after the next block.
v1_get_blockchain_info_next ==
    [op |-> "info", file_hash |-> EmptyStr, kind |-> "info",
     network_status |-> v1_get_network_status,
     total_transactions |-> Cardinality(DOMAIN v1_mock_transactions),
     total_blocks |-> v1_block_counter + 1,
     total_documents |-> Cardinality(DOMAIN v1_mock_documents)]

v1_get_blockchain_info ==
    [op |-> "info", file_hash |-> EmptyStr, kind |-> "info",
     network_status |-> v1_get_network_status,
     total_transactions |-> Cardinality(DOMAIN v1_mock_transactions),
     total_blocks |-> Len(v1_mock_blocks),
     total_documents |-> Cardinality(DOMAIN v1_mock_documents)]

V1GetBlockchainInfo ==
    /\ v1_result' = v1_get_blockchain_info
    /\ UNCHANGED <<now, v2vars, v1_mock_transactions, v1_mock_documents,
                   v1_mock_blocks, v1_block_counter, v1_calls, endpoint>>

----------------------------------------------------------------------------
(* api/v1/endpoints/blockchain.py.  Every endpoint call and every background *)
(* task constructs its own blockchain_service.BlockchainService, whose       *)
(* __init__ starts from an empty reference ledger, and drops it at its end.  *)

\* `instances` lists, for every instance constructed, the file hashes of its
\* _mock_documents at the end of the call that constructed it; `anchored` is
\* the history of the file hashes whose background task completed.
NoEndpoint == [instances |-> <<>>, anchored |-> {},
               response |-> [kind |-> "none"]]

\* anchor_document_background(document_id, file_hash, user_did, db): a new
\* instance anchors the file hash (metadata None) in its own ledger, and the
\* transaction record is committed to the database.
AnchorDocumentBackground(file_hash, user_did) ==
    /\ Len(endpoint.instances) < MaxEndpointCalls
    /\ endpoint' = [endpoint EXCEPT
                       !.instances = Append(@, {file_hash}),
                       !.anchored = @ \cup {file_hash},
                       !.response = [kind |-> "none"]]
    /\ UNCHANGED <<now, v2vars, v1_mock_transactions, v1_mock_documents,
                   v1_mock_blocks, v1_block_counter, v1_result, v1_calls>>

\* verify_document_on_blockchain(document_hash): a new instance verifies the
\* file hash in its own ledger.
VerifyDocumentOnBlockchain(document_hash) ==
    /\ Len(endpoint.instances) < MaxEndpointCalls
    /\ endpoint' = [endpoint EXCEPT
                       !.instances = Append(@, {}),
                       !.response =
                           [kind |-> "verify",
                            document_hash |-> document_hash,
                            blockchain_verified |->
                                v1_verify_result_new(document_hash).verified]]
    /\ UNCHANGED <<now, v2vars, v1_mock_transactions, v1_mock_documents,
                   v1_mock_blocks, v1_block_counter, v1_result, v1_calls>>

----------------------------------------------------------------------------
(* State after construction.  blockchain_service_v2: _initialize_connections *)
(* leaves the service on the chain it connected to or on the empty reference *)
(* ledger, _setup_security leaves the nonce cache empty and the rate limiter *)
(* at 0 with the construction time.  blockchain_service: __init__ leaves the *)
(* reference ledger empty.                                                   *)

InitWith(Settings) ==
    /\ now = 0
    /\ settings \in Settings
    /\ blockchain_type = initialize_connections(settings)
    /\ snapshot = NoSnapshot
    /\ fee = NoFee
    /\ tasks = [p \in Tasks |-> IdleTask]
    /\ chain_pending = <<>>
    /\ chain_receipts = <<>>
    /\ submitted = <<>>
    /\ conflict_lookup = "none"
    /\ mock_documents = <<>>
    /\ mock_transactions = <<>>
    /\ block_counter = 0
    /\ rate_limit_counter = 0
    /\ last_rate_limit_reset = 0
    /\ nonce_cache = NoNonce
    /\ chain_tx_count = 0
    /\ chain_documents = <<>>
    /\ call = IdleCall
    /\ last_anchor = NoResult
    /\ prev_anchor = NoResult
    /\ admitted = <<>>
    /\ v1_mock_transactions = <<>>
    /\ v1_mock_documents = <<>>
    /\ v1_mock_blocks = <<>>
    /\ v1_block_counter = 0
    /\ v1_result = NoV1Result
    /\ v1_calls = NoV1Calls
    /\ endpoint = NoEndpoint

Init == InitWith({MockSettings, ChainSettings})

Outcomes == {"rpc_fails", "send_fails", "confirmed"}

\* blockchain_service_v2 with every kind of argument.
Next ==
    \/ \E fh \in HexFileHashes, ud \in UserDids, md \in Metadatas :
           CallAnchor(fh, ud, md, MaxBlocks)
    \/ \E fh \in HexFileHashes : CallVerify(fh)
    \/ \E outcome \in Outcomes : AnchorAttempt(outcome)
    \/ \E outcome \in Outcomes : VerifyAttempt(outcome)
    \/ Backoff(MaxTime)
    \/ Tick(TickStep, MaxTime)

Spec == Init /\ [][Next]_vars

\* blockchain_service_v2 with every kind of file hash, for one owner.
NextHex ==
    \/ \E fh \in FileHashes : CallAnchor(fh, O1, MNone, MaxBlocks)
    \/ \E fh \in FileHashes : CallVerify(fh)
    \/ \E outcome \in Outcomes : AnchorAttempt(outcome)
    \/ \E outcome \in Outcomes : VerifyAttempt(outcome)
    \/ Backoff(MaxTime)
    \/ Tick(TickStep, MaxTime)

SpecHex == Init /\ [][NextHex]_vars

\* blockchain_service_v2 on the reference backend under a load of valid
\* anchor_document calls, over more than one window of the rate limiter.
InitRate == Init /\ blockchain_type = "mock"

NextRate ==
    \/ CallAnchor(D1, O1, MNone, MaxRateBlocks)
    \/ \E outcome \in Outcomes : AnchorAttempt(outcome)
    \/ Backoff(MaxRateTime)
    \/ Tick(RateTickStep, MaxRateTime)

SpecRate == InitRate /\ [][NextRate]_vars

\* The fee estimator of blockchain_service_v2 on a chain backend, with every
\* kind of answer of the node.
InitFee == Init /\ blockchain_type = "ethereum"

NextFee ==
    \/ \E estimate \in GasEstimates : EstimateGas(estimate)
    \/ \E price \in GasPrices : GetGasPrice(price)

SpecFee == InitFee /\ [][NextFee]_vars

\* Concurrent anchor_document calls of blockchain_service_v2 on a chain.
InitChain == InitFee

NextChain ==
    \/ \E p \in Tasks : TaskCall(p)
    \/ \E p \in Tasks, outcome \in {"rpc_fails", "sent"} : TaskRun(p, outcome)
    \/ \E p \in Tasks : TaskPoll(p)
    \/ \E p \in Tasks : TaskRetry(p)
    \/ \E status \in {0, 1} : Mine(status)
    \/ Advance(MaxChainTime)

SpecChain == InitChain /\ [][NextChain]_vars

\* One anchor_document call of blockchain_service_v2 on a chain, followed
\* through the timeout of its wait for the receipt and its retries.
NextWait ==
    \/ TaskCall(1)
    \/ \E outcome \in {"rpc_fails", "sent"} : TaskRun(1, outcome)
    \/ TaskPoll(1)
    \/ TaskRetry(1)
    \/ \E status \in {0, 1} : Mine(status)
    \/ Advance(MaxWaitTime)

SpecWait == InitChain /\ [][NextWait]_vars

\* The same call on an event loop that runs every coroutine that is ready
\* and a clock that advances, through the waits of all its attempts.
NextLive ==
    \/ TaskCall(1)
    \/ \E outcome \in {"rpc_fails", "sent"} : TaskRun(1, outcome)
    \/ TaskPoll(1)
    \/ TaskRetry(1)
    \/ \E status \in {0, 1} : Mine(status)
    \/ Advance(MaxLiveTime)

SpecLive ==
    /\ InitChain /\ [][NextLive]_vars
    /\ WF_vars(TaskPoll(1))
    /\ WF_vars(Advance(MaxLiveTime))

\* blockchain_service_v2 constructed from every kind of settings.
InitBuild == InitWith(AllSettings)

NextBuild ==
    \/ CallAnchor(D1, O1, MNone, MaxBuildBlocks)
    \/ CallVerify(D1)
    \/ \E outcome \in Outcomes : AnchorAttempt(outcome)
    \/ \E outcome \in Outcomes : VerifyAttempt(outcome)
    \/ Backoff(MaxBuildTime)
    \/ \E outcome \in StatusOutcomes : GetNetworkStatus(outcome)
    \/ V1GetNetworkStatus

SpecBuild == InitBuild /\ [][NextBuild]_vars

\* blockchain_service: the reference ledger.
NextV1 ==
    \/ \E fh \in V1FileHashes, ud \in V1UserDids, md \in V1Metadatas :
           V1Anchor(fh, ud, md)
    \/ \E fh \in V1FileHashes, ud \in V1UserDids, r \in V1Reasons :
           V1Revoke(fh, ud, r)
    \/ \E fh \in V1FileHashes : V1Verify(fh)
    \/ Tick(1, MaxV1Time)

SpecV1 == InitRate /\ [][NextV1]_vars

\* blockchain_service: the histories and the totals of the documents of one
\* owner.
NextHist ==
    \/ \E fh \in V1FileHashes, md \in V1Metadatas : V1Anchor(fh, O1, md)
    \/ \E fh \in V1FileHashes, r \in V1Reasons : V1Revoke(fh, O1, r)
    \/ \E fh \in V1FileHashes : V1History(fh)
    \/ V1GetBlockchainInfo
    \/ Tick(1, MaxV1Time)

SpecHist == InitRate /\ [][NextHist]_vars

\* The anchor background task and the verify endpoint of the API.
NextApi ==
    \/ \E fh \in V1FileHashes, ud \in V1UserDids :
           AnchorDocumentBackground(fh, ud)
    \/ \E fh \in V1FileHashes : VerifyDocumentOnBlockchain(fh)

SpecApi == InitRate /\ [][NextApi]_vars

----------------------------------------------------------------------------
(* Claims *)

ValidMetadata(metadata) ==
    ~Truthy(metadata)
    \/ (metadata.type = "dict" /\ metadata.json
        /\ metadata.dumps_len <= MaxMetadataLen)

AnchorDone == call.op = "anchor" /\ call.pc = "done"
VerifyDone == call.op = "verify" /\ call.pc = "done"

\* The verify_document that has returned follows a successful anchor_document
\* of the same file hash, on the reference backend.
VerifyFollowsAnchor ==
    /\ blockchain_type = "mock"
    /\ VerifyDone
    /\ last_anchor.kind = "anchor"
    /\ last_anchor.file_hash = call.file_hash

\* C1 as stated: on the reference backend anchor_document succeeds for every
\* 64-hex-character digest and every non-empty owner identifier (with metadata
\* the validator accepts).
C1_AnyNonEmptyOwner ==
    (/\ blockchain_type = "mock"
     /\ AnchorDone
     /\ call.file_hash.len = HashLen /\ call.file_hash.hex
     /\ call.user_did.len > 0
     /\ ValidMetadata(call.metadata))
    => call.result.kind = "anchored"

\* C1 as amended: on the reference backend, for every 64-hex-character digest,
\* every owner identifier of at least 10 characters and metadata the validator
\* accepts, an anchor_document call that the rate limiter does not refuse
\* succeeds at its first invocation, and a following verify_document of the
\* digest returns verified=true with that owner, the metadata passed ({} when
\* none was passed) and revoked=false.
C1_AnchorThenVerify ==
    /\ (/\ blockchain_type = "mock"
        /\ AnchorDone
        /\ call.file_hash.len = HashLen /\ call.file_hash.hex
        /\ call.user_did.len >= MinDidLen
        /\ ValidMetadata(call.metadata)
        /\ ~call.limited)
       => (call.result.kind = "anchored" /\ call.invocations = 1)
    /\ VerifyFollowsAnchor
       => /\ call.result.kind = "verify"
          /\ call.result.verified
          /\ call.result.user_did = last_anchor.user_did
          /\ call.result.metadata = OrEmpty(last_anchor.metadata)
          /\ call.result.revoked = FALSE

\* Witness of C1: a verify_document has returned after two anchors of its
\* 64-hex digest by different owners of at least 10 characters.
C1_Witness ==
    /\ VerifyFollowsAnchor
    /\ call.file_hash.hex
    /\ prev_anchor.kind = "anchor"
    /\ prev_anchor.file_hash = last_anchor.file_hash
    /\ prev_anchor.user_did # last_anchor.user_did
    /\ call.result.kind = "verify"

\* C2: on the reference ledger of blockchain_service, a verify_document of a
\* digest whose entry was revoked reports the revocation: it is no longer
\* verified, or its result carries revoked=true.
C2_VerifyReportsRevocation ==
    (/\ v1_result.op = "verify"
     /\ v1_result.file_hash \in DOMAIN v1_mock_documents
     /\ v1_mock_documents[v1_result.file_hash].status = "revoked")
    => \/ ~v1_result.verified
       \/ ("revoked" \in DOMAIN v1_result /\ v1_result.revoked)

V1Ledger == <<v1_mock_transactions, v1_mock_blocks, v1_mock_documents,
              v1_block_counter>>

\* The step is a revoke_document of blockchain_service.
V1RevokeStep == v1_result' # v1_result /\ v1_result'.op = "revoke"

\* C3: revoke_document of a digest that was never anchored fails and leaves
\* transactions, blocks and documents unchanged.
C3_RevokeRequiresAnchor ==
    [][(V1RevokeStep /\ v1_result'.file_hash \notin DOMAIN v1_mock_documents)
       => (v1_result'.kind = "error" /\ UNCHANGED V1Ledger)]_vars

\* C4: once a digest's record is revoked, no later operation returns it to a
\* status other than revoked.
C4_RevokedIsTerminal ==
    [][\A d \in DOMAIN v1_mock_documents :
           v1_mock_documents[d].status = "revoked"
           => v1_mock_documents'[d].status = "revoked"]_vars

\* C5: a revoke_document of a digest that is already revoked fails, or leaves
\* the transactions, the blocks, the block counter and the document record as
\* the first revoke left them.
C5_SecondRevokeIdempotent ==
    [][(/\ V1RevokeStep
        /\ v1_result'.file_hash \in DOMAIN v1_mock_documents
        /\ v1_mock_documents[v1_result'.file_hash].status = "revoked")
       => (v1_result'.kind = "error" \/ UNCHANGED V1Ledger)]_vars

\* C6: two successful anchors of the same digest on the reference backend of
\* blockchain_service_v2 have distinct transaction references, both kept in
\* the transaction set.
C6_TwoDistinctReferences ==
    (/\ blockchain_type = "mock"
     /\ last_anchor.kind = "anchor" /\ prev_anchor.kind = "anchor"
     /\ last_anchor.file_hash = prev_anchor.file_hash)
    => /\ last_anchor.transaction_hash # prev_anchor.transaction_hash
       /\ last_anchor.transaction_hash \in DOMAIN mock_transactions
       /\ prev_anchor.transaction_hash \in DOMAIN mock_transactions

\* C7: an anchor_document call that the rate limiter refused, 10 calls being
\* admitted in the current window, ends with the rate-limit error and no
\* entry in the ledger.
C7_RefusedCallFails ==
    (AnchorDone /\ call.limited)
    => (IsRateLimitError(call.result) /\ Len(admitted) <= RateLimitCap)

\* C8: every invocation of anchor_document with metadata whose serialisation
\* is longer than 10000 characters raises and leaves the reference ledger,
\* the nonce cache and the chain as they were.
C8_OversizedMetadataRejected ==
    [][(/\ call.pc = "run" /\ call.op = "anchor"
        /\ call'.invocations = call.invocations + 1
        /\ call.metadata.type = "dict"
        /\ call.metadata.dumps_len > MaxMetadataLen)
       => (call'.result.kind = "error" /\ UNCHANGED <<ledger, chain>>)]_vars

\* Witness of C8: a call with a valid digest and owner and oversized metadata
\* has ended, after all its attempts, with the metadata error.
C8_Witness ==
    /\ AnchorDone
    /\ call.file_hash = D1 /\ call.user_did = O1 /\ call.metadata = MBig
    /\ call.invocations = AnchorMaxRetries
    /\ call.result.kind = "error"
    /\ Root(call.result) = "Metadata too large"

\* C9: anchor_document ends with the invalid-digest error for every file hash
\* that is not 64 hexadecimal characters, and every key of the ledger is a
\* 64-hex-character digest.
C9_OnlyHexDigests ==
    /\ (AnchorDone /\ ~(call.file_hash.len = HashLen /\ call.file_hash.hex))
       => (call.result.kind = "error"
           /\ Root(call.result) = "Invalid file hash")
    /\ \A k \in DOMAIN mock_documents \cup DOMAIN chain_documents :
           k.len = HashLen /\ k.hex

\* C10: a call that failed with an invalid-input error or the rate-limit
\* error invoked the wrapped operation once, did not sleep, and has surfaced
\* the error.
C10_NoRetryOfRejections ==
    (IsValidationError(call.result) \/ IsRateLimitError(call.result))
    => (call.pc = "done" /\ call.invocations = 1 /\ call.slept = 0)

\* The failures of the network that the chain backend meets.
NetworkFailures == {"rpc_fails", "send_fails"}

\* C11: a call under retry_on_failure(max_retries=3) goes on to the next
\* attempt after a first and a second failed invocation, and when the third
\* invocation succeeds the call returns that value, the wrapped operation
\* having been invoked exactly 3 times.
C11_ThirdAttemptReturns ==
    /\ (/\ call.max_retries = AnchorMaxRetries
        /\ call.invocations \in 1..(AnchorMaxRetries - 1)
        /\ call.result.kind = "error")
       => call.pc \in {"sleep", "run"}
    /\ call.result.kind \in {"anchored", "verify"}
       => (call.pc = "done" /\ call.invocations = call.attempt + 1)

\* Witness of C11: an anchor_document on the chain backend has returned the
\* value of its third invocation, after two failures of the network.
C11_Witness ==
    /\ AnchorDone /\ blockchain_type = "ethereum"
    /\ call.result.kind = "anchored"
    /\ call.invocations = AnchorMaxRetries
    /\ call.slept = AnchorDelay + 2 * AnchorDelay

ConstructionFails ==
    /\ settings.BLOCKCHAIN_TYPE # "mock"
    /\ \/ settings.RPC_URL # "ok"
       \/ settings.PRIVATE_KEY # "ok"
       \/ settings.CONTRACT_ADDRESS # "ok"

\* C16: a service whose chain-adapter construction failed has blockchain_type
\* MOCK with an empty reference ledger until its first anchor, keeps that
\* type after every operation, and every operation is served by the reference
\* backend: nothing reaches the chain, and results and snapshots name the
\* network "mock".
C16_FailedBuildIsMock ==
    ConstructionFails
    => /\ blockchain_type = "mock"
       /\ admitted = <<>>
          => (mock_documents = <<>> /\ mock_transactions = <<>>
              /\ block_counter = 0)
       /\ nonce_cache = NoNonce /\ chain_tx_count = 0 /\ chain_documents = <<>>
       /\ call.result.kind = "anchored" => call.result.network = "mock"
       /\ (call.result.kind = "verify" /\ call.result.verified)
          => call.result.network = "mock"
       /\ snapshot.kind = "status" => snapshot.network = "mock"

\* Witness of C16: a service configured for a chain with a reachable endpoint
\* and the key 0xFF..F has anchored and verified a document and reported its
\* status.
C16_Witness ==
    /\ ConstructionFails
    /\ settings.RPC_URL = "ok" /\ settings.PRIVATE_KEY = "EFFS"
    /\ VerifyDone /\ call.result.kind = "verify" /\ call.result.verified
    /\ snapshot.kind = "status"

\* C19: get_network_status raises for no backend and no failure: it returns
\* a snapshot, and when a query of the backend failed the snapshot's status
\* is "offline" or "error".
C19_StatusNeverRaises ==
    /\ snapshot.kind \in {"none", "status"}
    /\ (snapshot.kind = "status" /\ snapshot.query # "confirmed")
       => snapshot.status \in {"offline", "error"}
    /\ v1_result.op = "status" => v1_result.kind = "status"

\* Witness of C19: a service on Polygon has returned the snapshot of a
\* failed query, and the service of blockchain_service its snapshot.
C19_Witness ==
    /\ blockchain_type = "polygon"
    /\ snapshot.kind = "status" /\ snapshot.status = "error"
    /\ v1_result.op = "status"

\* C13: the gas limit of a backend estimate e >= 0 is the integer part of
\* 1.2 * e brought into [100000, 5000000], and 300000 when the estimation
\* raises; it is always within [100000, 5000000].
C13_GasLimitClamped ==
    fee.has_gas
    => /\ MinGas <= fee.gas /\ fee.gas <= MaxGas
       /\ fee.estimate.raises => fee.gas = DefaultGas
       /\ ~fee.estimate.raises
          => /\ 10 * fee.gas_with_buffer <= 12 * fee.estimate.value
             /\ 12 * fee.estimate.value < 10 * (fee.gas_with_buffer + 1)
             /\ fee.gas_with_buffer < MinGas => fee.gas = MinGas
             /\ fee.gas_with_buffer > MaxGas => fee.gas = MaxGas
             /\ fee.gas_with_buffer \in MinGas..MaxGas
                => fee.gas = fee.gas_with_buffer

\* Witness of C13: an estimate whose buffered value is 99999, one gas unit
\* under the minimum, gave the minimum.
C13_Witness ==
    /\ fee.has_gas /\ ~fee.estimate.raises
    /\ fee.gas_with_buffer = MinGas - 1
    /\ fee.gas = MinGas

\* b is the integer part of 1.1 * p: b = p + q with 10 * q <= p < 10 * q + 10.
IsElevenTenths(b, p) ==
    \E d \in 0..9 :
        \E q \in {WeiDivTen(p)} :
            /\ b = WeiAdd(p, q)
            /\ p = WeiAdd(Wei(q.gwei * 10 + q.wei \div (WeiPerGwei \div 10),
                               (q.wei % (WeiPerGwei \div 10)) * 10),
                           Wei(0, d))

\* C14: the gas price of a network price p (in wei) is the integer part of
\* 1.1 * p brought into [1 gwei, 100 gwei], and 20 gwei when reading the
\* network price raises; it is always within [1 gwei, 100 gwei].
C14_GasPriceClamped ==
    fee.has_price
    => /\ WeiLe(to_wei(MinGasPriceGwei), fee.gasPrice)
       /\ WeiLe(fee.gasPrice, to_wei(MaxGasPriceGwei))
       /\ fee.price.raises => fee.gasPrice = Wei(DefaultGasPriceGwei, 0)
       /\ ~fee.price.raises
          => /\ IsElevenTenths(fee.optimal_gas_price, fee.price.value)
             /\ IF ~WeiLe(to_wei(MinGasPriceGwei), fee.optimal_gas_price)
                THEN fee.gasPrice = Wei(MinGasPriceGwei, 0)
                ELSE IF ~WeiLe(fee.optimal_gas_price, to_wei(MaxGasPriceGwei))
                THEN fee.gasPrice = Wei(MaxGasPriceGwei, 0)
                ELSE fee.gasPrice = fee.optimal_gas_price

\* Witness of C14: a network price whose buffered value is one wei above
\* 100 gwei gave 100 gwei.
C14_Witness ==
    /\ fee.has_price /\ ~fee.price.raises
    /\ fee.optimal_gas_price = Wei(MaxGasPriceGwei, 1)
    /\ fee.gasPrice = Wei(MaxGasPriceGwei, 0)

\* C15: a wait whose poll was answered by a receipt of status 0 has failed
\* at that poll with the transaction-reverted error: it is not polling any
\* more and has not ended with the timeout error.
C15_RevertedFailsAtPoll ==
    \A p \in Tasks :
        tasks[p].saw_reverted
        => /\ tasks[p].pc # "wait"
           /\ tasks[p].result.kind = "error"
           /\ Root(tasks[p].result) = Root(reverted_error)

\* C17: no two transactions that concurrent anchor_document calls of one
\* service instance handed to send_raw_transaction carry the same nonce.
C17_DistinctNonces ==
    \A i, j \in DOMAIN submitted :
        (i # j /\ submitted[i].task # submitted[j].task)
        => submitted[i].nonce # submitted[j].nonce

\* C18: the nonce lookup that follows a submission refused for a nonce
\* conflict is answered by the node, never by the cache.
C18_ConflictRefetches == conflict_lookup # "stale"

\* The transactions of the ledger of blockchain_service with this file hash.
V1TransactionsOf(file_hash) ==
    {id \in DOMAIN v1_mock_transactions :
        v1_mock_transactions[id].file_hash = file_hash}

\* C20: get_document_history(d) lists every transaction of the ledger whose
\* file hash is d once, anchors and revocations, and none of another file
\* hash, each with its operation and timestamp, in ascending order of
\* timestamp.
C20_HistoryOfDigestSorted ==
    v1_result.op = "history"
    => LET events == v1_result.events
       IN /\ {events[i].transaction_id : i \in DOMAIN events}
                 = V1TransactionsOf(v1_result.file_hash)
          /\ Len(events) = Cardinality(V1TransactionsOf(v1_result.file_hash))
          /\ \A i \in DOMAIN events :
                 LET t == v1_mock_transactions[events[i].transaction_id]
                 IN /\ events[i].operation = t.operation
                    /\ events[i].timestamp = t.timestamp
          /\ \A i, j \in DOMAIN events :
                 i < j => events[i].timestamp <= events[j].timestamp

\* Witness of C20: the history of a digest lists its anchor and, later, its
\* revocation, while the ledger holds a transaction of another digest.
C20_Witness ==
    /\ v1_result.op = "history"
    /\ Len(v1_result.events) = 2
    /\ v1_result.events[1].operation = "anchor_document"
    /\ v1_result.events[2].operation = "revoke_document"
    /\ v1_result.events[1].timestamp < v1_result.events[2].timestamp
    /\ Cardinality(DOMAIN v1_mock_transactions) > 2

\* The blocks of the reference ledger that list a transaction.
V1BlocksOf(transaction_id) ==
    {i \in DOMAIN v1_mock_blocks :
        \E k \in DOMAIN v1_mock_blocks[i].transactions :
            v1_mock_blocks[i].transactions[k] = transaction_id}

\* C21: on the reference ledger of blockchain_service the blocks are numbered
\* 1, 2, ..., _block_counter in the order of the list, every block holds one
\* transaction, and every transaction of _mock_transactions is listed in
\* exactly one block, the block whose number is the transaction's
\* block_number.
C21_OneBlockPerTransaction ==
    /\ Len(v1_mock_blocks) = v1_block_counter
    /\ \A i \in DOMAIN v1_mock_blocks :
           /\ v1_mock_blocks[i].block_number = i
           /\ Len(v1_mock_blocks[i].transactions) = 1
    /\ \A id \in DOMAIN v1_mock_transactions :
           /\ Cardinality(V1BlocksOf(id)) = 1
           /\ \A i \in V1BlocksOf(id) :
                  v1_mock_blocks[i].block_number
                      = v1_mock_transactions[id].block_number

\* C26: an anchor_document of blockchain_service that raises leaves
\* _mock_transactions, _mock_documents, _mock_blocks and _block_counter as
\* they were before the call.
C26_FailedAnchorIsAtomic ==
    [][(v1_result'.op = "anchor" /\ v1_result'.kind = "error")
           => UNCHANGED <<v1_mock_transactions, v1_mock_documents,
                          v1_mock_blocks, v1_block_counter>>]_vars

\* C22: a nonce lookup is answered by the cache, which it leaves alone, while
\* the entry is younger than 5 minutes, and else by the node, whose answer
\* replaces the entry and its timestamp; and a submission whose lookup falls
\* within the lifetime of the cache, and that follows a submission the node
\* accepted, uses the nonce after that one.
C22_NonceCache ==
    [][Len(submitted') = Len(submitted) + 1
           => LET s == submitted'[Len(submitted')]
              IN /\ nonce_cache_hit
                        => /\ s.nonce = nonce_cache.nonce
                           /\ nonce_cache' = nonce_cache
                 /\ ~nonce_cache_hit
                        => /\ s.nonce = chain_tx_count
                           /\ nonce_cache' = [cached |-> TRUE,
                                              nonce |-> chain_tx_count,
                                              timestamp |-> now]
                 /\ (/\ nonce_cache_hit
                     /\ submitted # <<>>
                     /\ submitted[Len(submitted)].accepted)
                        => s.nonce = submitted[Len(submitted)].nonce + 1]_vars

\* A wait for the receipt ended with this step.
WaitEnds(p) == tasks[p].pc = "wait" /\ tasks'[p].pc # "wait"

\* C23: the wait for the receipt polls every 2 s from its start; it ends only
\* by returning a receipt of status 1 or, 300 s after its start, with the
\* timeout error, whatever its polls raised; and it ends.
C23_WaitTerminates ==
    /\ [](\A p \in Tasks :
              tasks[p].pc = "wait"
              => /\ (tasks[p].wake - tasks[p].start_time) % PollInterval = 0
                 /\ tasks[p].wake > tasks[p].start_time
                 /\ tasks[p].wake <= tasks[p].start_time + ReceiptTimeout)
    /\ [][\A p \in Tasks :
              WaitEnds(p)
              => \/ /\ tasks'[p].result.kind = "anchored"
                    /\ tasks[p].tx \in DOMAIN chain_receipts
                    /\ chain_receipts[tasks[p].tx] = 1
                 \/ /\ tasks'[p].result.kind = "error"
                    /\ Root(tasks'[p].result) = Root(timeout_error)
                    /\ now - tasks[p].start_time = ReceiptTimeout]_vars
    /\ \A p \in Tasks : (tasks[p].pc = "wait") ~> (tasks[p].pc # "wait")

\* Witness of C23: a wait whose polls raised (the receipt reported status 0)
\* has ended with the timeout error, 300 s after its start.
C23_Witness ==
    /\ tasks[1].saw_reverted
    /\ tasks[1].pc \in {"sleep", "done"}
    /\ Root(tasks[1].result) = Root(timeout_error)
    /\ now = tasks[1].start_time + ReceiptTimeout

\* C24: while the anchor_document call in flight is one that validation
\* rejected, no step changes _rate_limit_counter or _last_rate_limit_reset.
C24_RejectedLeavesLimiter ==
    [][(call'.op = "anchor" /\ IsValidationError(call'.result))
           => UNCHANGED <<rate_limit_counter, last_rate_limit_reset>>]_vars

\* Witness of C24: every invocation of a call was rejected by validation,
\* in a window in which the limiter has admitted other calls.
C24_Witness ==
    /\ AnchorDone /\ IsValidationError(call.result)
    /\ call.invocations = AnchorMaxRetries
    /\ call.admissions = 0
    /\ rate_limit_counter > 0

\* C27: the rate limiter admits at most one invocation of one anchor_document
\* call, however many attempts the retry wrapper makes.
C27_OneAdmissionPerCall == call.admissions <= 1

\* The invocations that _check_rate_limit admitted from time t on, before u.
AdmittedIn(t, u) == {i \in DOMAIN admitted : t <= admitted[i] /\ admitted[i] < u}

\* C28 as stated: _rate_limit_counter never exceeds 10 and no interval of
\* 60 s, wherever it starts, holds more than 10 admitted invocations.
C28_EveryIntervalCapped ==
    /\ rate_limit_counter <= RateLimitCap
    /\ \A i \in DOMAIN admitted :
           Cardinality(AdmittedIn(admitted[i], admitted[i] + RateWindow))
               <= RateLimitCap

\* C28: _rate_limit_counter never exceeds 10 and counts the invocations
\* admitted since the last reset of the window, so that no window between
\* two resets holds more than 10 admitted invocations.
C28_FixedWindowCapped ==
    /\ rate_limit_counter <= RateLimitCap
    /\ Cardinality(AdmittedIn(last_rate_limit_reset, now + 1))
           = rate_limit_counter

\* Witness of C28: more than 10 invocations were admitted within less than
\* 60 s, on both sides of a reset of the window.
C28_Witness ==
    /\ Len(admitted) > RateLimitCap
    /\ admitted[Len(admitted)] - admitted[1] < RateWindow
    /\ last_rate_limit_reset > admitted[1]
    /\ rate_limit_counter >= 1

\* C25: when A anchor_document calls and R revoke_document calls have
\* returned on the service instance and none has raised, get_blockchain_info
\* reports A + R transactions, A + R blocks, as many documents as distinct
\* file hashes were anchored, and a network status with latest_block A + R.
C25_InfoCountsCalls ==
    (v1_result.op = "info" /\ v1_calls.failed = 0)
    => /\ v1_result.total_transactions = v1_calls.anchors + v1_calls.revokes
       /\ v1_result.total_blocks = v1_calls.anchors + v1_calls.revokes
       /\ v1_result.total_documents = Cardinality(v1_calls.digests)
       /\ v1_result.network_status.latest_block
              = v1_calls.anchors + v1_calls.revokes

\* Witness of C25: the information after two anchors of one file hash and a
\* revocation.
C25_Witness ==
    /\ v1_result.op = "info"
    /\ v1_calls = [anchors |-> 2, revokes |-> 1, failed |-> 0, digests |-> {D1}]
    /\ v1_result.total_blocks = 3

\* C29: the blocks of the reference ledger of blockchain_service form a hash
\* chain: the previous_hash of the first block is the genesis value and the
\* previous_hash of every later block is the hash of the block before it in
\* _mock_blocks.
C29_HashChain ==
    \A i \in DOMAIN v1_mock_blocks :
        v1_mock_blocks[i].previous_hash
            = IF i = 1 THEN GenesisHash ELSE v1_mock_blocks[i - 1].hash

\* Witness of C29: a chain of an anchor block, a revocation block and an
\* anchor block with three different hashes.
C29_Witness ==
    /\ Len(v1_mock_blocks) = 3
    /\ v1_mock_transactions[v1_mock_blocks[2].transactions[1]].operation
           = "revoke_document"
    /\ v1_mock_blocks[1].hash # v1_mock_blocks[2].hash
    /\ v1_mock_blocks[2].hash # v1_mock_blocks[3].hash
    /\ v1_mock_blocks[3].previous_hash # GenesisHash

\* C30: the verify endpoint reports blockchain_verified = true for a file
\* hash whose anchor background task has completed.
C30_AnchorVisibleToVerify ==
    (endpoint.response.kind = "verify"
     /\ endpoint.response.document_hash \in endpoint.anchored)
    => endpoint.response.blockchain_verified

====
